---- MODULE Spec2Model ----
(***************************************************************************)
(* Model of utils/vi_utils.py: the spectral index catalog, the             *)
(* SpectralIndexCalculator (get_band, compute_index, add_indices) and the  *)
(* spectralIndices method attached to ee.ImageCollection.                  *)
(*                                                                         *)
(* Python values are represented as follows.                               *)
(*   dict            a function with a finite set of string keys           *)
(*   None / dict     the record [none, d] (None has none = TRUE)           *)
(*   0.5, 0.7        the integers 5, 7 (tenths)                            *)
(*   ee.Image        [bands |-> sequence of [name, content], err]; err is  *)
(*                   TRUE when the deferred graph selects a band that the  *)
(*                   image does not have (the engine then fails when the   *)
(*                   image is materialised)                                *)
(*   band content    [kind |-> "raw", ...] for sensor data and             *)
(*                   [kind |-> "expr", formula, syms] for an evaluated     *)
(*                   expression                                            *)
(* The Earth Engine client calls the code makes (select, expression,       *)
(* rename, addBands, map) are modelled by their documented behaviour;      *)
(* every call is also appended to a log so that what was submitted to the  *)
(* engine can be inspected.                                                *)
(***************************************************************************)
EXTENDS Integers, Sequences, FiniteSets, TLC

VARIABLES INDEX_CATALOG, band_map, args, params, result, out, pc

vars == <<INDEX_CATALOG, band_map, args, params, result, out, pc>>

-----------------------------------------------------------------------------
(* Bounds of the model *)

\* longest list of index names handed to add_indices / spectralIndices
MaxIndices == 2

\* largest collection handed to spectralIndices
MaxImages == 2

-----------------------------------------------------------------------------
(* Python helpers *)

None == [none |-> TRUE, d |-> <<>>]

Dict(d) == [none |-> FALSE, d |-> d]

\* truth value of an optional dict: None and {} are falsy
Truthy(x) == ~x.none /\ DOMAIN x.d # {}

\* d.get(k, default)
dict_get(d, k, default) == IF k \in DOMAIN d THEN d[k] ELSE default

\* a numeric value inside a symbol table
Num(v) == [kind |-> "num", v |-> v]

-----------------------------------------------------------------------------
(* The catalog, vi_utils.py lines 18-35 *)

CatalogAtStart ==
  [NDVI  |-> [formula   |-> "(NIR - RED) / (NIR + RED)",
              bands     |-> [NIR |-> "B8", RED |-> "B4"],
              reference |-> "https://doi.org/10.1016/S0176-1617(11)81633-0"],
   EVI   |-> [formula   |-> "2.5 * (NIR - RED) / (NIR + 6*RED - 7.5*BLUE + 1)",
              bands     |-> [NIR |-> "B8", RED |-> "B4", BLUE |-> "B2"],
              reference |-> "https://doi.org/10.1016/S0034-4257(96)00112-5"],
   kNDVI |-> [formula   |-> "tanh(((NIR - RED) / (2 * sigma)) ** 2)",
              bands     |-> [NIR |-> "B8", RED |-> "B4"],
              params    |-> [sigma |-> 5],
              reference |-> "https://doi.org/10.1126/sciadv.abc7447"]]

-----------------------------------------------------------------------------
(* The Earth Engine image primitives the code calls *)

BandNames(image) == {image.bands[i].name : i \in DOMAIN image.bands}

HasBand(image, id) == id \in BandNames(image)

BandContent(image, id) ==
  LET i == CHOOSE i \in DOMAIN image.bands : image.bands[i].name = id
  IN  image.bands[i].content

\* image.select(id): a handle on band id of the image; selecting a band the
\* image does not have is an engine failure at evaluation time
select(image, id) ==
  [kind    |-> "band",
   id      |-> id,
   content |-> IF HasBand(image, id) THEN BandContent(image, id)
               ELSE [kind |-> "missing"]]

HandleMissing(h) == h.kind = "band" /\ h.content = [kind |-> "missing"]

\* image.expression(formula, syms).rename(name): a one-band image
expression(formula, syms, name) ==
  [name    |-> name,
   content |-> [kind |-> "expr", formula |-> formula, syms |-> syms]]

Suffixed(name, k) == name \o "_" \o ToString(k)

\* the name addBands gives a band under its default overwrite=False: the
\* band's own name, or name_1, name_2, ... when that name is taken
FreshName(names, name) ==
  IF name \notin names THEN name
  ELSE LET k == CHOOSE k \in 1..(Cardinality(names) + 1) :
                  /\ Suffixed(name, k) \notin names
                  /\ \A j \in 1..(k - 1) : Suffixed(name, j) \in names
       IN  Suffixed(name, k)

\* addBands as it would act with overwrite=True: a band of the same name is
\* replaced in place
addBands_overwrite(image, band, failed) ==
  [bands |-> IF HasBand(image, band.name)
             THEN [i \in DOMAIN image.bands |->
                     IF image.bands[i].name = band.name THEN band
                     ELSE image.bands[i]]
             ELSE Append(image.bands, band),
   err   |-> image.err \/ failed]

\* image.addBands(band), overwrite left at its default
addBands(image, band, failed) ==
  [bands |-> Append(image.bands,
                    [name    |-> FreshName(BandNames(image), band.name),
                     content |-> band.content]),
   err   |-> image.err \/ failed]

-----------------------------------------------------------------------------
(* SpectralIndexCalculator *)

\* __init__: self.band_map = band_map or {}
new_band_map(bm) == IF Truthy(bm) THEN bm.d ELSE <<>>

\* get_band(self, image, band)
get_band(bm, image, band) == select(image, dict_get(bm, band, band))

\* merge_params with the defaults written over the caller's values
merge_params_defaults_win(spec, p) ==
  LET copy == dict_get(spec, "params", <<>>)
  IN  [index_params |-> IF Truthy(p) THEN copy @@ p.d ELSE copy,
       spec         |-> spec,
       params       |-> p]

\* merge_params without the copy: index_params is the catalog's own dict,
\* so update() writes the caller's values into the catalog entry
merge_params_alias(spec, p) ==
  LET own    == dict_get(spec, "params", <<>>)
      merged == IF Truthy(p) THEN p.d @@ own ELSE own
  IN  [index_params |-> merged,
       spec         |-> IF "params" \in DOMAIN spec
                        THEN [spec EXCEPT !.params = merged] ELSE spec,
       params       |-> p]

\* merge_params keeping only the parameters the catalog entry declares
merge_params_declared_only(spec, p) ==
  LET copy == dict_get(spec, "params", <<>>)
  IN  [index_params |-> [k \in DOMAIN copy |->
                           IF Truthy(p) /\ k \in DOMAIN p.d THEN p.d[k]
                           ELSE copy[k]],
       spec         |-> spec,
       params       |-> p]

\* compute_index lines 55-57: the defaults are copied, the caller's params
\* are written over the copy; the catalog entry and the caller's dict are
\* left as they were
merge_params(spec, p) ==
  LET copy == dict_get(spec, "params", <<>>)
  IN  [index_params |-> IF Truthy(p) THEN p.d @@ copy ELSE copy,
       spec         |-> spec,
       params       |-> p]

\* merge_expr_dict with the band handles written over the parameters
merge_expr_dict_bands_win(bands, index_params) ==
  bands @@ [k \in DOMAIN index_params |-> Num(index_params[k])]

\* compute_index line 61: expr_dict = {**bands, **index_params}; on a key
\* both have, the later entry (the parameter) is the one kept
merge_expr_dict(bands, index_params) ==
  [k \in DOMAIN index_params |-> Num(index_params[k])] @@ bands

\* the outcome of a call that raised
Raised(kind, cat, p) ==
  [status |-> kind, image |-> <<>>, calls |-> <<>>, catalog |-> cat, params |-> p]

\* compute_index(self, image, index_name, params)
compute_index(cat, bm, image, index_name, p) ==
  IF index_name \notin DOMAIN cat THEN Raised("KeyError", cat, p)
  ELSE
    LET spec      == cat[index_name]
        m         == merge_params(spec, p)
        roles     == DOMAIN spec.bands
        bands     == [k \in roles |-> get_band(bm, image, spec.bands[k])]
        expr_dict == merge_expr_dict(bands, m.index_params)
        band      == expression(spec.formula, expr_dict, index_name)
        failed    == \E k \in DOMAIN expr_dict : HandleMissing(expr_dict[k])
        image2    == addBands(image, band, failed)
    IN  [status  |-> "ok",
         image   |-> <<image2>>,
         calls   |-> <<[op |-> "select", index |-> index_name,
                        bands |-> [k \in roles |-> bands[k].id]],
                       [op |-> "expression", index |-> index_name,
                        formula |-> spec.formula, syms |-> expr_dict],
                       [op |-> "addBands", index |-> index_name,
                        dst |-> image, res |-> image2]>>,
         catalog |-> [cat EXCEPT ![index_name] = m.spec],
         params  |-> m.params]

RECURSIVE add_indices_loop(_, _, _, _, _, _)
add_indices_loop(cat, bm, image, indices, p, calls) ==
  IF indices = <<>>
  THEN [status |-> "ok", image |-> <<image>>, calls |-> calls,
        catalog |-> cat, params |-> p]
  ELSE LET r == compute_index(cat, bm, image, Head(indices), p)
       IN  IF r.status # "ok"
           THEN [r EXCEPT !.calls = calls \o r.calls]
           ELSE add_indices_loop(r.catalog, bm, r.image[1], Tail(indices),
                                 r.params, calls \o r.calls)

\* add_indices catching the exception and handing back the image it was given
add_indices_swallow(cat, bm, image, indices, p) ==
  LET r == add_indices_loop(cat, bm, image, indices, p, <<>>)
  IN  IF r.status = "ok" THEN r
      ELSE [r EXCEPT !.status = "ok", !.image = <<image>>]

\* add_indices computing every index on the image it was given, not on the
\* image the previous step returned
add_indices_unthreaded(cat, bm, image, indices, p) ==
  IF indices = <<>> \/ \E i \in DOMAIN indices : indices[i] \notin DOMAIN cat
  THEN add_indices_loop(cat, bm, image, indices, p, <<>>)
  ELSE compute_index(cat, bm, image, indices[Len(indices)], p)

\* add_indices walking the list from its end
add_indices_reversed(cat, bm, image, indices, p) ==
  add_indices_loop(cat, bm, image,
                   [i \in DOMAIN indices |-> indices[Len(indices) + 1 - i]],
                   p, <<>>)

\* add_indices(self, image, indices, params)
add_indices(cat, bm, image, indices, p) ==
  add_indices_loop(cat, bm, image, indices, p, <<>>)

-----------------------------------------------------------------------------
(* spectralIndices *)

\* the function handed to map: lambda img: calculator.add_indices(img, indices, params)
map_lambda(cat, calculator, img, indices, p) ==
  add_indices(cat, calculator, img, indices, p)

\* map handing element i the image the previous element produced
map_element_chained(coll, done, i) ==
  IF i - 1 \in DOMAIN done THEN done[i - 1] ELSE coll[i]

\* the image the engine hands to the mapped function for element i
map_element(coll, done, i) == coll[i]

\* the symbolic image on which map applies the function when it is called
Placeholder == [bands |-> <<>>, err |-> FALSE]

-----------------------------------------------------------------------------
(* Inputs *)

Vals == {1, 2}

Raw(b, v) == [name |-> b, content |-> [kind |-> "raw", band |-> b, v |-> v]]

Image(names, v) == [bands |-> [i \in DOMAIN names |-> Raw(names[i], v)], err |-> FALSE]

BandLayouts == {<<"B2", "B4", "B8", "B8A">>,
                <<"B2", "B4", "B8", "B8A", "NDVI">>,
                <<"B4", "B8">>}

Images == {Image(l, v) : l \in BandLayouts, v \in Vals}

CollImages == {Image(<<"B2", "B4", "B8", "B8A">>, 1),
               Image(<<"B2", "B4", "B8", "B8A", "NDVI">>, 2)}

BandMaps == {None,
             Dict([NIR |-> "B8A"]),
             Dict([B8 |-> "B8A"]),
             Dict([B2 |-> "NDVI"])}

ParamChoices == {None,
                 Dict(<<>>),
                 Dict([sigma |-> 7]),
                 Dict([NIR |-> 9])}

IndexNames == {"NDVI", "EVI", "kNDVI", "FOOBAR"}

SeqsUpTo(S, n) == UNION {[1..k -> S] : k \in 0..n}

IndexLists == SeqsUpTo(IndexNames, MaxIndices)

Collections == SeqsUpTo(CollImages, MaxImages) \ {<<>>}

NoResult == [status |-> "none", image |-> <<>>, calls |-> <<>>]

Outcome(r) == [status |-> r.status, image |-> r.image, calls |-> r.calls]

-----------------------------------------------------------------------------
(* The state machine *)

Init ==
  /\ INDEX_CATALOG = CatalogAtStart
  /\ band_map = <<>>
  /\ args = [op |-> "none"]
  /\ params = None
  /\ result = NoResult
  /\ out = <<>>
  /\ pc = "idle"

\* calculator = SpectralIndexCalculator(band_map)
NewCalculator ==
  /\ pc = "idle"
  /\ args.op = "none"
  /\ \E bm \in BandMaps : band_map' = new_band_map(bm)
  /\ args' = [op |-> "init"]
  /\ result' = NoResult
  /\ out' = <<>>
  /\ UNCHANGED <<INDEX_CATALOG, params, pc>>

\* calculator.compute_index(image, index_name, params)
ComputeIndex ==
  /\ pc = "idle"
  /\ args.op \in {"none", "init"}
  /\ \E image \in Images, index_name \in IndexNames, p \in ParamChoices :
       LET r == compute_index(INDEX_CATALOG, band_map, image, index_name, p)
       IN  /\ args' = [op |-> "compute_index", image |-> image,
                       indices |-> <<index_name>>, params |-> p]
           /\ result' = Outcome(r)
           /\ INDEX_CATALOG' = r.catalog
           /\ params' = r.params
  /\ out' = <<>>
  /\ UNCHANGED <<band_map, pc>>

\* calculator.add_indices(image, indices, params)
AddIndices ==
  /\ pc = "idle"
  /\ args.op \in {"none", "init"}
  /\ \E image \in Images, indices \in IndexLists, p \in ParamChoices :
       LET r == add_indices(INDEX_CATALOG, band_map, image, indices, p)
       IN  /\ args' = [op |-> "add_indices", image |-> image,
                       indices |-> indices, params |-> p]
           /\ result' = Outcome(r)
           /\ INDEX_CATALOG' = r.catalog
           /\ params' = r.params
  /\ out' = <<>>
  /\ UNCHANGED <<band_map, pc>>

\* collection.spectralIndices(indices, band_map, params): a calculator of
\* its own is built and map applies the function to the symbolic image; an
\* exception raised there leaves the call without a collection
SpectralIndices ==
  /\ pc = "idle"
  /\ args.op \in {"none", "init"}
  /\ \E coll \in Collections, indices \in IndexLists, bm \in BandMaps,
        p \in ParamChoices :
       LET calculator == new_band_map(bm)
           r == map_lambda(INDEX_CATALOG, calculator, Placeholder, indices, p)
       IN  /\ args' = [op |-> "spectralIndices", coll |-> coll,
                       indices |-> indices, calculator |-> calculator,
                       params |-> p]
           /\ result' = [status |-> r.status, image |-> <<>>, calls |-> <<>>]
           /\ INDEX_CATALOG' = r.catalog
           /\ params' = r.params
           /\ pc' = IF r.status = "ok" THEN "mapping" ELSE "idle"
  /\ out' = <<>>
  /\ UNCHANGED band_map

\* the engine evaluates one element of the mapped collection; the elements
\* are evaluated in any order
MapStep ==
  /\ pc = "mapping"
  /\ \E i \in DOMAIN args.coll \ DOMAIN out :
       LET r == map_lambda(INDEX_CATALOG, args.calculator,
                           map_element(args.coll, out, i), args.indices, params)
       IN  /\ out' = (i :> r.image[1]) @@ out
           /\ INDEX_CATALOG' = r.catalog
           /\ params' = r.params
           /\ pc' = IF DOMAIN out' = DOMAIN args.coll THEN "idle" ELSE "mapping"
  /\ UNCHANGED <<band_map, args, result>>

\* the caller is done with what the last call returned; the calculator and
\* the catalog stay as they are for the next call
Discard ==
  /\ pc = "idle"
  /\ args.op # "none"
  /\ args' = [op |-> "none"]
  /\ params' = None
  /\ result' = NoResult
  /\ out' = <<>>
  /\ UNCHANGED <<INDEX_CATALOG, band_map, pc>>

Next ==
  \/ Discard
  \/ NewCalculator
  \/ ComputeIndex
  \/ AddIndices
  \/ SpectralIndices
  \/ MapStep

Spec == Init /\ [][Next]_vars

-----------------------------------------------------------------------------
(* What the last call did, read from the state *)

IsComputeIndex == args.op = "compute_index"

IsAddIndices == args.op = "add_indices"

Returned == result.status = "ok" /\ Len(result.image) = 1

\* the index name of a compute_index call
TheIndex == args.indices[1]

\* the log entries of the k-th compute_index of the call
SelectCall(k) == result.calls[3 * k - 2]

ExpressionCall(k) == result.calls[3 * k - 1]

AddBandsCall(k) == result.calls[3 * k]

\* the merged parameters the claims expect: the catalog defaults of an
\* index, the caller's values over them
ExpectedParams(index_name, p) ==
  LET defaults == dict_get(CatalogAtStart[index_name], "params", <<>>)
  IN  IF p.none THEN defaults ELSE p.d @@ defaults

Range(seq) == {seq[i] : i \in DOMAIN seq}

-----------------------------------------------------------------------------
(* C1 *)

\* C1: band resolution honours a band_map keyed by band role: for every role
\* the index requires, compute_index selects band_map[role] when the role is
\* a key of band_map and the index's default band identifier otherwise.
C1_BandMapKeyedByRole ==
  (IsComputeIndex /\ Returned) =>
    \A role \in DOMAIN CatalogAtStart[TheIndex].bands :
      SelectCall(1).bands[role] =
        dict_get(band_map, role, CatalogAtStart[TheIndex].bands[role])

-----------------------------------------------------------------------------
(* C2 *)

\* the input image is a prefix of the returned one, which has one band more
OneBandAppended(before, after) ==
  /\ Len(after.bands) = Len(before.bands) + 1
  /\ SubSeq(after.bands, 1, Len(before.bands)) = before.bands

NewBandName(after) == after.bands[Len(after.bands)].name

\* C2 as claimed: for every catalog index and every image that has all the
\* required bands, an image that already carries a band of the index's name
\* included, compute_index returns an image with exactly one new band named
\* after the index and every earlier band present and unchanged.
C2_Original ==
  (IsComputeIndex /\ Returned /\ ~result.image[1].err) =>
    /\ OneBandAppended(args.image, result.image[1])
    /\ NewBandName(result.image[1]) = TheIndex

\* C2 amended: compute_index returns an image with exactly one new band and
\* every earlier band present and unchanged; the new band is named after the
\* index when the image carries no band of that name, and otherwise has the
\* first free name among index_1, index_2, ...
C2_OneBandAppended ==
  (IsComputeIndex /\ Returned /\ ~result.image[1].err) =>
    LET before == args.image
        after  == result.image[1]
        name   == NewBandName(after)
    IN  /\ OneBandAppended(before, after)
        /\ after.bands[Len(after.bands)].content.kind = "expr"
        /\ after.bands[Len(after.bands)].content.formula
             = CatalogAtStart[TheIndex].formula
        /\ ~HasBand(before, TheIndex) => name = TheIndex
        /\ HasBand(before, TheIndex) =>
             \E k \in 1..(Len(before.bands) + 1) :
               /\ name = Suffixed(TheIndex, k)
               /\ ~HasBand(before, name)
               /\ \A j \in 1..(k - 1) : HasBand(before, Suffixed(TheIndex, j))

\* an image that already has an NDVI band is given NDVI again
C2_Witness ==
  /\ IsComputeIndex /\ Returned /\ ~result.image[1].err
  /\ TheIndex = "NDVI"
  /\ HasBand(args.image, "NDVI")
  /\ NewBandName(result.image[1]) = "NDVI_1"
  /\ BandContent(result.image[1], "NDVI") = BandContent(args.image, "NDVI")

-----------------------------------------------------------------------------
(* C3 *)

\* C3: the parameter values in an index's symbol table are the catalog
\* defaults merged with the caller's params, the caller's value winning on a
\* key both have: kNDVI with {"sigma": 0.7} evaluates with 0.7, and with
\* params None or empty with the default 0.5.
C3_ParamsMerged ==
  (IsComputeIndex /\ Returned) =>
    LET syms   == ExpressionCall(1).syms
        merged == ExpectedParams(TheIndex, args.params)
    IN  /\ \A k \in DOMAIN merged : k \in DOMAIN syms /\ syms[k] = Num(merged[k])
        /\ TheIndex = "kNDVI" =>
             /\ args.params = Dict([sigma |-> 7]) => syms["sigma"] = Num(7)
             /\ ~Truthy(args.params) => syms["sigma"] = Num(5)

C3_Witness ==
  /\ IsComputeIndex /\ Returned
  /\ TheIndex = "kNDVI"
  /\ args.params = Dict([sigma |-> 7])
  /\ ExpressionCall(1).syms["sigma"] = Num(7)
  /\ CatalogAtStart["kNDVI"].params["sigma"] = 5

-----------------------------------------------------------------------------
(* C4 *)

UnknownAt(i) == args.indices[i] \notin DOMAIN CatalogAtStart

\* C4: an index name that is no key of the catalog makes compute_index fail
\* with a lookup error before any band is selected or any expression is
\* submitted; add_indices lets the failure through, so a list with an
\* unknown name yields no image, wherever the unknown name stands.
C4_UnknownNameFails ==
  /\ (IsComputeIndex /\ UnknownAt(1)) =>
       /\ result.status = "KeyError"
       /\ result.image = <<>>
       /\ result.calls = <<>>
  /\ (IsAddIndices /\ \E i \in DOMAIN args.indices : UnknownAt(i)) =>
       LET first == CHOOSE i \in DOMAIN args.indices :
                      UnknownAt(i) /\ \A j \in 1..(i - 1) : ~UnknownAt(j)
       IN  /\ result.status = "KeyError"
           /\ result.image = <<>>
           \* only the names before the unknown one reached the engine
           /\ Len(result.calls) = 3 * (first - 1)
           /\ \A c \in DOMAIN result.calls :
                result.calls[c].index \in DOMAIN CatalogAtStart
  /\ ((IsComputeIndex \/ IsAddIndices) /\ result.status = "KeyError") =>
       \E i \in DOMAIN args.indices : UnknownAt(i)

\* the unknown name comes second, after an index that was computed
C4_Witness ==
  /\ IsAddIndices
  /\ args.indices = <<"NDVI", "FOOBAR">>
  /\ result.status = "KeyError"
  /\ result.image = <<>>
  /\ Len(result.calls) = 3
-----------------------------------------------------------------------------
(* C5 *)

AllKnown == \A i \in DOMAIN args.indices : ~UnknownAt(i)

\* the lists that hold the entries of seq in another order
Reorderings(seq) ==
  {[i \in DOMAIN seq |-> seq[f[i]]] :
     f \in {g \in [DOMAIN seq -> DOMAIN seq] :
              \A a, b \in DOMAIN seq : g[a] = g[b] => a = b}}

\* the image add_indices returns for the arguments of the last call with the
\* list replaced by another one
WithList(indices) ==
  add_indices(CatalogAtStart, band_map, args.image, indices, args.params).image[1]

\* C5 as claimed: for any list of catalog index names the band names of the
\* image add_indices returns are the original band names plus the requested
\* names, and do not depend on the order of the list.
C5_Original ==
  (IsAddIndices /\ AllKnown /\ Returned) =>
    /\ BandNames(result.image[1]) = BandNames(args.image) \cup Range(args.indices)
    /\ \A other \in Reorderings(args.indices) :
         BandNames(WithList(other)) = BandNames(result.image[1])

\* C5 amended: for any list of catalog index names whose evaluation succeeds,
\* the band names of the returned image contain the original band names and
\* the requested names, are exactly those when the list names no index twice
\* and the image carries none of the requested names, and are the same for
\* every order of the list whose evaluation succeeds.
C5_BandSetOrderFree ==
  (IsAddIndices /\ AllKnown /\ Returned /\ ~result.image[1].err) =>
    LET names == BandNames(result.image[1])
        fresh == /\ \A i, j \in DOMAIN args.indices :
                      args.indices[i] = args.indices[j] => i = j
                 /\ Range(args.indices) \cap BandNames(args.image) = {}
    IN  /\ BandNames(args.image) \cup Range(args.indices) \subseteq names
        /\ Len(result.image[1].bands)
             = Len(args.image.bands) + Len(args.indices)
        /\ fresh => names = BandNames(args.image) \cup Range(args.indices)
        /\ \A other \in Reorderings(args.indices) :
             ~WithList(other).err => BandNames(WithList(other)) = names

C5_Witness ==
  /\ IsAddIndices /\ Returned /\ ~result.image[1].err
  /\ args.indices = <<"EVI", "NDVI">>
  /\ ~WithList(<<"NDVI", "EVI">>).err
  /\ WithList(<<"NDVI", "EVI">>).bands # result.image[1].bands
  /\ BandNames(result.image[1]) = BandNames(args.image) \cup {"NDVI", "EVI"}
  /\ ~HasBand(args.image, "NDVI")

-----------------------------------------------------------------------------
(* C6 *)

\* C6: spectralIndices over a collection of M images gives M images, the
\* i-th being add_indices applied to the i-th input image alone, whatever
\* the other images hold and in whatever order the engine evaluates them.
C6_PerImage ==
  args.op = "spectralIndices" =>
    /\ \A i \in DOMAIN out :
         /\ i \in DOMAIN args.coll
         /\ out[i] = add_indices(CatalogAtStart, args.calculator, args.coll[i],
                                 args.indices, args.params).image[1]
    /\ (pc = "idle" /\ result.status = "ok") => DOMAIN out = DOMAIN args.coll
    /\ result.status # "ok" => out = <<>> /\ pc = "idle"

\* two different images, both evaluated, the second one first
C6_Witness ==
  /\ args.op = "spectralIndices"
  /\ pc = "idle" /\ result.status = "ok"
  /\ Len(args.coll) = 2
  /\ args.coll[1] # args.coll[2]
  /\ args.indices # <<>>
  /\ DOMAIN out = {1, 2}
  /\ out[1] # out[2]

-----------------------------------------------------------------------------
(* C7 *)

\* C7: the catalog is never mutated: after any sequence of calls, with any
\* band_map and any params, it has the names, formulas, band defaults and
\* parameter defaults it started with, so a call without overrides uses
\* sigma = 0.5 again.
C7_CatalogUnchanged ==
  /\ INDEX_CATALOG = CatalogAtStart
  /\ (IsComputeIndex /\ Returned /\ TheIndex = "kNDVI" /\ ~Truthy(args.params)) =>
       ExpressionCall(1).syms["sigma"] = Num(5)

\* a call that overrode sigma has just returned
C7_Witness ==
  /\ (IsComputeIndex \/ IsAddIndices) /\ Returned
  /\ \E k \in DOMAIN args.indices : args.indices[k] = "kNDVI"
  /\ args.params = Dict([sigma |-> 7])
  /\ INDEX_CATALOG["kNDVI"].params["sigma"] = 5

-----------------------------------------------------------------------------
(* C8 *)

\* the handle compute_index resolved for a role
ResolvedHandle(role) == select(args.image, SelectCall(1).bands[role])

\* C8 as claimed: the symbol table handed to the engine maps every band role
\* of the index's spec to the handle resolved for that role and every
\* parameter name to its merged value, for all caller params, a parameter
\* named like a band role included.
C8_Original ==
  (IsComputeIndex /\ Returned) =>
    LET syms   == ExpressionCall(1).syms
        merged == ExpectedParams(TheIndex, args.params)
    IN  /\ \A role \in DOMAIN CatalogAtStart[TheIndex].bands :
             role \in DOMAIN syms /\ syms[role] = ResolvedHandle(role)
        /\ \A k \in DOMAIN merged : k \in DOMAIN syms /\ syms[k] = Num(merged[k])

\* C8 amended: the symbol table maps every parameter name to its merged
\* value and every band role that is not also a parameter name to the handle
\* resolved for that role; it has no other keys.
C8_SymbolTable ==
  (IsComputeIndex /\ Returned) =>
    LET syms   == ExpressionCall(1).syms
        merged == ExpectedParams(TheIndex, args.params)
        roles  == DOMAIN CatalogAtStart[TheIndex].bands
    IN  /\ DOMAIN syms = roles \cup DOMAIN merged
        /\ \A role \in roles \ DOMAIN merged : syms[role] = ResolvedHandle(role)
        /\ \A k \in DOMAIN merged : syms[k] = Num(merged[k])

\* the caller's params name the band role NIR
C8_Witness ==
  /\ IsComputeIndex /\ Returned
  /\ args.params = Dict([NIR |-> 9])
  /\ ExpressionCall(1).syms["NIR"] = Num(9)
  /\ ExpressionCall(1).syms["RED"] = ResolvedHandle("RED")

-----------------------------------------------------------------------------
(* C9 *)

\* the bands of an image that hold an evaluation of the formula of an index
ComputedBands(image, index_name) ==
  {i \in DOMAIN image.bands :
     /\ image.bands[i].content.kind = "expr"
     /\ image.bands[i].content.formula = CatalogAtStart[index_name].formula}

\* compute_index ran once per entry, in list order, each step on the image
\* the step before returned
StepsInOrder ==
  /\ Len(result.calls) = 3 * Len(args.indices)
  /\ \A k \in DOMAIN args.indices :
       /\ AddBandsCall(k).op = "addBands"
       /\ AddBandsCall(k).index = args.indices[k]
       /\ ExpressionCall(k).index = args.indices[k]
       /\ AddBandsCall(k).dst = IF k = 1 THEN args.image
                                ELSE AddBandsCall(k - 1).res
  /\ result.image[1] = IF args.indices = <<>> THEN args.image
                       ELSE AddBandsCall(Len(args.indices)).res

\* C9 as claimed: add_indices applies compute_index once per entry, in list
\* order, each step on the image the step before returned; a name that
\* occurs twice is computed twice and the image carries a single band of
\* that name, the later computation having replaced the earlier one.
C9_Original ==
  (IsAddIndices /\ Returned) =>
    /\ StepsInOrder
    /\ \A n \in Range(args.indices) :
         Cardinality(ComputedBands(result.image[1], n)) = 1

\* C9 amended: add_indices applies compute_index once per entry, in list
\* order, each step on the image the step before returned; a name that
\* occurs twice is computed twice and the image carries both results, the
\* k-th computation as the k-th band after the original ones: nothing is
\* replaced, and a computation whose name is taken is appended under the
\* first free name among name_1, name_2, ...
C9_StepsAppend ==
  (IsAddIndices /\ Returned) =>
    LET before == args.image
        after  == result.image[1]
        n0     == Len(before.bands)
    IN  /\ StepsInOrder
        /\ Len(after.bands) = n0 + Len(args.indices)
        /\ SubSeq(after.bands, 1, n0) = before.bands
        /\ \A k \in DOMAIN args.indices :
             /\ after.bands[n0 + k].content
                  = [kind    |-> "expr",
                     formula |-> CatalogAtStart[args.indices[k]].formula,
                     syms    |-> ExpressionCall(k).syms]
             /\ after.bands[n0 + k].name
                  = FreshName(BandNames(AddBandsCall(k).dst), args.indices[k])
        /\ \A i, j \in DOMAIN after.bands :
             after.bands[i].name = after.bands[j].name => i = j
        /\ \A n \in Range(args.indices) :
             Cardinality(ComputedBands(after, n))
               = Cardinality({k \in DOMAIN args.indices : args.indices[k] = n})

\* NDVI is asked for twice on an image without an NDVI band
C9_Witness ==
  /\ IsAddIndices /\ Returned
  /\ args.indices = <<"NDVI", "NDVI">>
  /\ ~HasBand(args.image, "NDVI")
  /\ HasBand(result.image[1], "NDVI")
  /\ HasBand(result.image[1], "NDVI_1")
  /\ Cardinality(ComputedBands(result.image[1], "NDVI")) = 2

-----------------------------------------------------------------------------
(* C10 *)

\* C10: add_indices hands the same caller params to every requested index,
\* so every index's symbol table holds all the caller's parameter names,
\* also for an index whose catalog entry declares no parameters, and the
\* caller's params mapping is left unchanged by the call.
C10_SameParamsEveryIndex ==
  (IsAddIndices /\ Returned) =>
    /\ params = args.params
    /\ ~args.params.none =>
         \A k \in DOMAIN args.indices :
           \A name \in DOMAIN args.params.d :
             /\ name \in DOMAIN ExpressionCall(k).syms
             /\ ExpressionCall(k).syms[name] = Num(args.params.d[name])

\* NDVI, which declares no parameters, is evaluated with sigma = 0.7
C10_Witness ==
  /\ IsAddIndices /\ Returned
  /\ args.indices = <<"NDVI", "kNDVI">>
  /\ args.params = Dict([sigma |-> 7])
  /\ "params" \notin DOMAIN CatalogAtStart["NDVI"]
  /\ ExpressionCall(1).syms["sigma"] = Num(7)
  /\ ExpressionCall(2).syms["sigma"] = Num(7)
  /\ params = Dict([sigma |-> 7])

====
